---- MODULE Spec2Model ----
(***************************************************************************)
(* Model of the Go board of src/python/go_board.py: the flat virtual       *)
(* grid with its GUARD ring, the per-point vertices (chain_head,           *)
(* chain_next, color), the per-head chain records (stone count, pseudo-    *)
(* liberty count, sum and sum of squares of the liberty coordinates), the  *)
(* ko point, the capture buffer and the Zobrist hash, driven by            *)
(* is_legal_move and play.                                                 *)
(*                                                                         *)
(* The arrays of the program have VIRTUAL_BOARD_POINTS entries; the model  *)
(* keeps the entries the program reads or writes for a board of side       *)
(* BoardSize: the in-board points and the GUARD cells next to them.        *)
(* Point indices are the program's ((row + 1) * 21 + col + 1).             *)
(***************************************************************************)
EXTENDS Integers, Sequences, FiniteSets, TLC

\* ------------------------------------------------------------------ bounds
\* Side of the board handed to GoBoard(board_size).
BoardSize == 3
\* The driver places at most this many stones (play calls other than PASS).
MaxMoves == 6
\* Width in bits of the modelled Zobrist table values.
HashBits == 8
\* GoBoard instances a search holds at most: the source and its clones.
MaxBoards == 2
\* play calls a search makes at most, over all its boards.
MaxSearchMoves == 3
\* Lines of a diagram whose lines may be ragged or indented.
MaxDiagramLines == 2
\* Stones played on a board after create_board has built it.
MaxDiagramMoves == 1
\* Length of the strings handed to parse_point.
MaxStrLen == 4
\* Side of the board of the random-play loop, which has no bound of its own.
RandomPlayBoardSize == 2

\* --------------------------------------------------------------- constants
BLACK == 0
WHITE == 1
EMPTY == 2
GUARD == 3

VIRTUAL_BOARD_SIZE == 21
INVALID_POINT == -1
PASS == 20 * VIRTUAL_BOARD_SIZE

\* Python integers are unbounded; liberty_vertex_sum_squared of a border
\* record is 2^31, so that field is kept as two limbs hi * LimbBase + lo.
LimbBase == 2 ^ 16

opponent(c) == IF c = BLACK THEN WHITE ELSE IF c = WHITE THEN BLACK ELSE c

\* ------------------------------------------------------------- coordinates
point_from_2d(row, col) == (row + 1) * VIRTUAL_BOARD_SIZE + col + 1

point_to_2d(p) ==
  IF p = INVALID_POINT \/ p = PASS
    THEN <<-1, -1>>
    ELSE <<(p \div VIRTUAL_BOARD_SIZE) - 1, (p % VIRTUAL_BOARD_SIZE) - 1>>

board_points ==
  { point_from_2d(row, col) : row \in 0..(BoardSize - 1), col \in 0..(BoardSize - 1) }

neighbours(p) ==
  << p + VIRTUAL_BOARD_SIZE, p - 1, p + 1, p - VIRTUAL_BOARD_SIZE >>

NeighbourSet(p) == { neighbours(p)[i] : i \in 1..4 }

\* The entries of _board and _chains that a board of side BoardSize touches.
Cells == board_points \cup UNION { NeighbourSet(p) : p \in board_points }

in_board_area(p) ==
  LET rc == point_to_2d(p)
  IN  rc[1] >= 0 /\ rc[1] < BoardSize /\ rc[2] >= 0 /\ rc[2] < BoardSize

\* ------------------------------------------------- unbounded integer limbs
BigFromInt(n) == [hi |-> n \div LimbBase, lo |-> n % LimbBase]

BigAddInt(b, n) ==
  LET t == b.lo + n
  IN  [hi |-> b.hi + (t \div LimbBase), lo |-> t % LimbBase]

BigSubInt(b, n) ==
  LET t == b.lo - n
  IN  [hi |-> b.hi + (t \div LimbBase), lo |-> t % LimbBase]

BigAddBig(a, b) ==
  LET t == a.lo + b.lo
  IN  [hi |-> a.hi + b.hi + (t \div LimbBase), lo |-> t % LimbBase]

BigMulInt(b, k) ==
  LET t == b.lo * k
  IN  [hi |-> b.hi * k + (t \div LimbBase), lo |-> t % LimbBase]

\* ------------------------------------------------------------------- Chain
\* Chain(): the border values of a freshly constructed record.
ChainBorder ==
  [ num_stones |-> 0,
    num_pseudo_liberties |-> 4,
    liberty_vertex_sum |-> 32768,
    \* 2147483648 = 2 * 32768 * 32768
    liberty_vertex_sum_squared |-> BigMulInt(BigMulInt(BigFromInt(32768), 32768), 2) ]

reset ==
  [ num_stones |-> 0,
    num_pseudo_liberties |-> 0,
    liberty_vertex_sum |-> 0,
    liberty_vertex_sum_squared |-> BigFromInt(0) ]

\* Mutant: takes atari to be a pseudo-liberty count of one.
chain_in_atari_mut_count_one(ch) == ch.num_pseudo_liberties = 1

chain_in_atari(ch) ==
  BigMulInt(ch.liberty_vertex_sum_squared, ch.num_pseudo_liberties)
    = BigFromInt(ch.liberty_vertex_sum * ch.liberty_vertex_sum)

\* Mutant: leaves the sum of squares of the absorbed chain out.
merge_mut_no_squares(self, other) ==
  [ num_stones |-> self.num_stones + other.num_stones,
    num_pseudo_liberties |-> self.num_pseudo_liberties + other.num_pseudo_liberties,
    liberty_vertex_sum |-> self.liberty_vertex_sum + other.liberty_vertex_sum,
    liberty_vertex_sum_squared |-> self.liberty_vertex_sum_squared ]

merge(self, other) ==
  [ num_stones |-> self.num_stones + other.num_stones,
    num_pseudo_liberties |-> self.num_pseudo_liberties + other.num_pseudo_liberties,
    liberty_vertex_sum |-> self.liberty_vertex_sum + other.liberty_vertex_sum,
    liberty_vertex_sum_squared |->
      BigAddBig(self.liberty_vertex_sum_squared, other.liberty_vertex_sum_squared) ]

add_liberty(ch, p) ==
  [ ch EXCEPT !.num_pseudo_liberties = @ + 1,
              !.liberty_vertex_sum = @ + p,
              !.liberty_vertex_sum_squared = BigAddInt(@, p * p) ]

remove_liberty(ch, p) ==
  [ ch EXCEPT !.num_pseudo_liberties = @ - 1,
              !.liberty_vertex_sum = @ - p,
              !.liberty_vertex_sum_squared = BigSubInt(@, p * p) ]

\* Chain.single_liberty: the exception it raises ("none" if it returns) and
\* the point it returns.
chain_single_liberty(ch) ==
  IF ~chain_in_atari(ch)
    THEN [error |-> "AssertionError", point |-> INVALID_POINT]
  ELSE IF ch.num_pseudo_liberties = 0
    THEN [error |-> "ZeroDivisionError", point |-> INVALID_POINT]
  ELSE IF ch.liberty_vertex_sum % ch.num_pseudo_liberties # 0
    THEN [error |-> "AssertionError", point |-> INVALID_POINT]
  ELSE [error |-> "none",
        point |-> ch.liberty_vertex_sum \div ch.num_pseudo_liberties]

\* ----------------------------------------------------------- Zobrist table
\* _ZOBRIST_VALUES is drawn once per process; the model fixes one table of
\* HashBits-bit values.
ZobristValue(p, c) == ((p * 4 + c + 1) * 40503) % (2 ^ HashBits)

RECURSIVE Xor(_, _)
Xor(a, b) ==
  IF a = 0 THEN b
  ELSE IF b = 0 THEN a
  ELSE (((a % 2) + (b % 2)) % 2) + 2 * Xor(a \div 2, b \div 2)

\* ------------------------------------------------------------------- state
VARIABLES
  chain_head,      \* _board[i].chain_head
  chain_next,      \* _board[i].chain_next
  color,           \* _board[i].color
  chains,          \* _chains[i]
  last_ko_point,   \* _last_ko_point
  last_captures,   \* _last_captures, 4 slots
  zobrist_hash,    \* _zobrist_hash
  error,           \* "none", or the exception that ended the run
  moves,           \* stones placed so far by the driver
  heap,            \* the list objects of the GoBoard instances of the search
  handles,         \* the GoBoard instances of the search: source and clones
  alone,           \* per instance, the board its own calls alone lead to
  diagram,         \* the text handed to create_board, split in lines
  parse,           \* the string handed to parse_point and what came of it
  convert,         \* a point or a text on its way through format and parse
  to_play          \* the colour the random-play loop moves next

vars == << chain_head, chain_next, color, chains, last_ko_point,
           last_captures, zobrist_hash, error, moves, heap, handles, alone,
           diagram, parse, convert, to_play >>

\* The variables of the search over cloned boards.
searchVars == << heap, handles, alone >>

\* No string has been handed to parse_point.
NotParsing == [s |-> << >>, called |-> TRUE, error |-> "none", point |-> INVALID_POINT]

\* No point and no text is being converted.
NotConverting ==
  [ kind |-> "none", step |-> 2, point_in |-> INVALID_POINT, text_in |-> << >>,
    text |-> << >>, point |-> INVALID_POINT, error |-> "none" ]

\* The variables of the single board.
boardVars == << chain_head, chain_next, color, chains, last_ko_point,
                last_captures, zobrist_hash >>

\* The board as one value, for the operators that transform it.
Self ==
  [ chain_head |-> chain_head, chain_next |-> chain_next, color |-> color,
    chains |-> chains, last_ko_point |-> last_ko_point,
    last_captures |-> last_captures, zobrist_hash |-> zobrist_hash ]

\* Applies Op along the four neighbours of p, in the order of neighbours(p).
ForNeighbours(Op(_, _), s, p) ==
  Op(Op(Op(Op(s, neighbours(p)[1]), neighbours(p)[2]), neighbours(p)[3]),
     neighbours(p)[4])

point_color(s, p) == s.color[p]
is_empty(s, p) == s.color[p] = EMPTY
board_chain_head(s, p) == s.chain_head[p]
\* _chain(p): the record of p's head.
chain_of(s, p) == s.chains[s.chain_head[p]]
chain_size(s, p) == chain_of(s, p).num_stones
SetChain(s, p, ch) == [s EXCEPT !.chains[s.chain_head[p]] = ch]

\* ------------------------------------------------------------ construction
\* Mutant: seeds a liberty for every neighbour, GUARD cells included.
InitAddLiberty_mut_counts_guard(col, ch, p, n) == add_liberty(ch, n)

InitAddLiberty(col, ch, p, n) ==
  IF col[n] = EMPTY THEN add_liberty(ch, n) ELSE ch

\* board_points(board_size)
BoardPointsOf(board_size) ==
  { point_from_2d(row, col) : row \in 0..(board_size - 1), col \in 0..(board_size - 1) }

\* GoBoard(board_size), for a board_size up to BoardSize.
InitBoardOf(board_size) ==
  LET col == [p \in Cells |-> IF p \in BoardPointsOf(board_size) THEN EMPTY ELSE GUARD]
      seeded(p) ==
        InitAddLiberty(col,
          InitAddLiberty(col,
            InitAddLiberty(col,
              InitAddLiberty(col, reset, p, neighbours(p)[1]),
              p, neighbours(p)[2]),
            p, neighbours(p)[3]),
          p, neighbours(p)[4])
  IN  [ chain_head |-> [p \in Cells |-> p],
        chain_next |-> [p \in Cells |-> p],
        color |-> col,
        chains |-> [p \in Cells |->
                      IF p \in BoardPointsOf(board_size) THEN seeded(p) ELSE ChainBorder],
        last_ko_point |-> INVALID_POINT,
        last_captures |-> [i \in 1..4 |-> INVALID_POINT],
        zobrist_hash |-> 0 ]

InitBoard == InitBoardOf(BoardSize)

\* ---------------------------------------------------------------- queries
pseudo_liberty(s, p) ==
  LET ch == chain_of(s, p)
  IN  IF ch.num_pseudo_liberties = 0 THEN 0
      ELSE IF chain_in_atari(ch) THEN 1
      ELSE ch.num_pseudo_liberties

in_atari(s, p) == chain_in_atari(chain_of(s, p))

\* GoBoard.single_liberty: the exception it raises ("none" if it returns) and
\* the point it returns.
single_liberty(s, p) ==
  LET head == s.chain_head[p]
      liberty == chain_single_liberty(chain_of(s, p))
  IN  IF liberty.error # "none" THEN liberty
      ELSE IF ~in_board_area(liberty.point)
        THEN [error |-> "AssertionError", point |-> INVALID_POINT]
      ELSE IF ~is_empty(s, liberty.point)
        THEN [error |-> "AssertionError", point |-> INVALID_POINT]
      ELSE IF \E i \in 1..4 : s.chain_head[neighbours(liberty.point)[i]] = head
        THEN liberty
      ELSE [error |-> "ValueError", point |-> INVALID_POINT]

\* Mutant: forgets the ko point.
is_legal_move_mut_no_ko(s, p, c) ==
  IF p = PASS THEN TRUE
  ELSE IF ~in_board_area(p) THEN FALSE
  ELSE IF ~is_empty(s, p) THEN FALSE
  ELSE IF chain_of(s, p).num_pseudo_liberties > 0 THEN TRUE
  ELSE IF \E i \in 1..4 :
            /\ point_color(s, neighbours(p)[i]) = c
            /\ ~chain_in_atari(chain_of(s, neighbours(p)[i]))
    THEN TRUE
  ELSE IF \E i \in 1..4 :
            /\ point_color(s, neighbours(p)[i]) = opponent(c)
            /\ chain_in_atari(chain_of(s, neighbours(p)[i]))
    THEN TRUE
  ELSE FALSE

\* Mutant: accepts joining a friendly chain that is in atari.
is_legal_move_mut_join_any(s, p, c) ==
  IF p = PASS THEN TRUE
  ELSE IF ~in_board_area(p) THEN FALSE
  ELSE IF ~is_empty(s, p) \/ p = s.last_ko_point THEN FALSE
  ELSE IF chain_of(s, p).num_pseudo_liberties > 0 THEN TRUE
  ELSE IF \E i \in 1..4 : point_color(s, neighbours(p)[i]) = c
    THEN TRUE
  ELSE IF \E i \in 1..4 :
            /\ point_color(s, neighbours(p)[i]) = opponent(c)
            /\ chain_in_atari(chain_of(s, neighbours(p)[i]))
    THEN TRUE
  ELSE FALSE

\* Mutant: accepts a move next to any opposing chain, in atari or not.
is_legal_move_mut_any_opponent(s, p, c) ==
  IF p = PASS THEN TRUE
  ELSE IF ~in_board_area(p) THEN FALSE
  ELSE IF ~is_empty(s, p) \/ p = s.last_ko_point THEN FALSE
  ELSE IF chain_of(s, p).num_pseudo_liberties > 0 THEN TRUE
  ELSE IF \E i \in 1..4 :
            /\ point_color(s, neighbours(p)[i]) = c
            /\ ~chain_in_atari(chain_of(s, neighbours(p)[i]))
    THEN TRUE
  ELSE IF \E i \in 1..4 : point_color(s, neighbours(p)[i]) = opponent(c)
    THEN TRUE
  ELSE FALSE

is_legal_move(s, p, c) ==
  IF p = PASS THEN TRUE
  ELSE IF ~in_board_area(p) THEN FALSE
  ELSE IF ~is_empty(s, p) \/ p = s.last_ko_point THEN FALSE
  ELSE IF chain_of(s, p).num_pseudo_liberties > 0 THEN TRUE
  ELSE IF \E i \in 1..4 :
            /\ point_color(s, neighbours(p)[i]) = c
            /\ ~chain_in_atari(chain_of(s, neighbours(p)[i]))
    THEN TRUE
  ELSE IF \E i \in 1..4 :
            /\ point_color(s, neighbours(p)[i]) = opponent(c)
            /\ chain_in_atari(chain_of(s, neighbours(p)[i]))
    THEN TRUE
  ELSE FALSE

\* -------------------------------------------------------------------- play
\* Mutant: always XORs the value of the new colour.
_set_stone_mut_new_colour(s, p, c) ==
  [ s EXCEPT !.zobrist_hash = Xor(@, ZobristValue(p, c)),
             !.color[p] = c ]

_set_stone(s, p, c) ==
  [ s EXCEPT
      !.zobrist_hash =
        IF c = EMPTY
          THEN Xor(@, ZobristValue(p, point_color(s, p)))
          ELSE Xor(@, ZobristValue(p, c)),
      !.color[p] = c ]

InitNewChainAddLiberty(s, p, n) ==
  IF is_empty(s, n) THEN SetChain(s, p, add_liberty(chain_of(s, p), n)) ELSE s

_init_new_chain(s, p) ==
  LET linked == [s EXCEPT !.chain_head[p] = p, !.chain_next[p] = p]
      fresh  == SetChain(linked, p, [reset EXCEPT !.num_stones = @ + 1])
      Step(st, n) == InitNewChainAddLiberty(st, p, n)
  IN  ForNeighbours(Step, fresh, p)

\* First loop of _join_chains_around: acc is (largest_chain_size, largest_chain_head).
\* Mutant: among equals the last neighbour wins.
LargestChainStep_mut_last_among_equals(s, c, acc, n) ==
  IF point_color(s, n) = c /\ chain_of(s, n).num_stones >= acc.size
    THEN [size |-> chain_of(s, n).num_stones, head |-> s.chain_head[n]]
    ELSE acc

LargestChainStep(s, c, acc, n) ==
  IF point_color(s, n) = c /\ chain_of(s, n).num_stones > acc.size
    THEN [size |-> chain_of(s, n).num_stones, head |-> s.chain_head[n]]
    ELSE acc

LargestChain(s, p, c) ==
  LET Step(acc, n) == LargestChainStep(s, c, acc, n)
  IN  ForNeighbours(Step, [size |-> 0, head |-> INVALID_POINT], p)

\* Mutant: relabels only the neighbouring stone itself.
RelabelChain_mut_first_only(s, cur, n, largest_chain_head) ==
  [s EXCEPT !.chain_head[cur] = largest_chain_head]

\* The while loop that sets chain_head of every stone of n's list.
RECURSIVE RelabelChain(_, _, _, _)
RelabelChain(s, cur, n, largest_chain_head) ==
  LET s1  == [s EXCEPT !.chain_head[cur] = largest_chain_head]
      nxt == s1.chain_next[cur]
  IN  IF nxt = n THEN s1 ELSE RelabelChain(s1, nxt, n, largest_chain_head)

\* Mutant: redirects the head's link but not the neighbour's.
SpliceLists_mut_one_link(s, n, largest_chain_head) ==
  [ s EXCEPT !.chain_next[largest_chain_head] = s.chain_next[n] ]

SpliceLists(s, n, largest_chain_head) ==
  [ s EXCEPT !.chain_next[largest_chain_head] = s.chain_next[n],
             !.chain_next[n] = s.chain_next[largest_chain_head] ]

\* Body of the second loop of _join_chains_around.
JoinNeighbour(s, c, largest_chain_head, n) ==
  IF point_color(s, n) = c /\ s.chain_head[n] # largest_chain_head
    THEN LET merged == SetChain(s, largest_chain_head,
                                merge(chain_of(s, largest_chain_head), chain_of(s, n)))
             relabelled == RelabelChain(merged, n, n, largest_chain_head)
         IN  SpliceLists(relabelled, n, largest_chain_head)
    ELSE s

JoinAddLiberty(s, largest_chain_head, n) ==
  IF is_empty(s, n)
    THEN SetChain(s, largest_chain_head,
                  add_liberty(chain_of(s, largest_chain_head), n))
    ELSE s

\* Mutant: the new stone stays its own head after it is linked in.
_join_chains_around_mut_own_head(s, p, c) ==
  LET largest == LargestChain(s, p, c)
      h == largest.head
      Join(st, n) == JoinNeighbour(st, c, h, n)
      joined == ForNeighbours(Join, s, p)
      linked == [ joined EXCEPT !.chain_next[p] = joined.chain_next[h],
                                !.chain_next[h] = p,
                                !.chain_head[p] = p ]
      counted == SetChain(linked, h,
                          [chain_of(linked, h) EXCEPT !.num_stones = @ + 1])
      AddLib(st, n) == JoinAddLiberty(st, h, n)
  IN  IF largest.size = 0
        THEN _init_new_chain(s, p)
        ELSE ForNeighbours(AddLib, counted, p)

_join_chains_around(s, p, c) ==
  LET largest == LargestChain(s, p, c)
      h == largest.head
      Join(st, n) == JoinNeighbour(st, c, h, n)
      joined == ForNeighbours(Join, s, p)
      linked == [ joined EXCEPT !.chain_next[p] = joined.chain_next[h],
                                !.chain_next[h] = p,
                                !.chain_head[p] = h ]
      counted == SetChain(linked, h,
                          [chain_of(linked, h) EXCEPT !.num_stones = @ + 1])
      AddLib(st, n) == JoinAddLiberty(st, h, n)
  IN  IF largest.size = 0
        THEN _init_new_chain(s, p)
        ELSE ForNeighbours(AddLib, counted, p)

\* Mutant: the records of EMPTY neighbours are left alone.
_remove_liberty_from_neighbouring_chains_mut_stones_only(s, p) ==
  LET Step(st, n) == IF is_empty(st, n) THEN st
                     ELSE SetChain(st, n, remove_liberty(chain_of(st, n), p))
  IN  ForNeighbours(Step, s, p)

_remove_liberty_from_neighbouring_chains(s, p) ==
  LET Step(st, n) == SetChain(st, n, remove_liberty(chain_of(st, n), p))
  IN  ForNeighbours(Step, s, p)

\* Mutant: gives the liberty back to EMPTY neighbours only.
RemoveChainGiveBack_mut_empty_only(s, cur, this_chain_head, n) ==
  IF is_empty(s, n)
    THEN SetChain(s, n, add_liberty(chain_of(s, n), cur))
    ELSE s

\* Mutant: gives no liberty back to a GUARD neighbour.
RemoveChainGiveBack_mut_skips_guard(s, cur, this_chain_head, n) ==
  IF (s.chain_head[n] # this_chain_head \/ is_empty(s, n)) /\ point_color(s, n) # GUARD
    THEN SetChain(s, n, add_liberty(chain_of(s, n), cur))
    ELSE s

RemoveChainGiveBack(s, cur, this_chain_head, n) ==
  IF s.chain_head[n] # this_chain_head \/ is_empty(s, n)
    THEN SetChain(s, n, add_liberty(chain_of(s, n), cur))
    ELSE s

\* The while loop of _remove_chain.
RECURSIVE RemoveChainFrom(_, _, _, _)
RemoveChainFrom(s, cur, p, this_chain_head) ==
  LET next_p == s.chain_next[cur]
      emptied == _init_new_chain(_set_stone(s, cur, EMPTY), cur)
      Step(st, n) == RemoveChainGiveBack(st, cur, this_chain_head, n)
      given == ForNeighbours(Step, emptied, cur)
  IN  IF next_p = p THEN given ELSE RemoveChainFrom(given, next_p, p, this_chain_head)

_remove_chain(s, p) == RemoveChainFrom(s, p, p, s.chain_head[p])

\* Body of the first loop of _capture_dead_chains; acc carries the board,
\* stones_captured and capture_index.
\* Mutant: records the neighbour itself instead of its chain head.
CaptureNeighbour_mut_records_point(acc, c, n) ==
  IF /\ point_color(acc.s, n) = opponent(c)
     /\ chain_of(acc.s, n).num_pseudo_liberties = 0
    THEN [ s |-> _remove_chain(
                   [acc.s EXCEPT !.last_captures[acc.capture_index + 1] = n], n),
           stones_captured |-> acc.stones_captured + chain_of(acc.s, n).num_stones,
           capture_index |-> acc.capture_index + 1 ]
    ELSE acc

CaptureNeighbour(acc, c, n) ==
  IF /\ point_color(acc.s, n) = opponent(c)
     /\ chain_of(acc.s, n).num_pseudo_liberties = 0
    THEN [ s |-> _remove_chain(
                   [acc.s EXCEPT !.last_captures[acc.capture_index + 1] =
                                    acc.s.chain_head[n]], n),
           stones_captured |-> acc.stones_captured + chain_of(acc.s, n).num_stones,
           capture_index |-> acc.capture_index + 1 ]
    ELSE acc

\* Mutant: stops after the first chain it removes.
_capture_dead_chains_mut_first_only(s, p, c) ==
  LET Step(acc, n) == IF acc.capture_index > 0 THEN acc ELSE CaptureNeighbour(acc, c, n)
      done == ForNeighbours(Step, [s |-> s, stones_captured |-> 0, capture_index |-> 0], p)
  IN  [ s |-> [ done.s EXCEPT !.last_captures =
                  [i \in 1..4 |-> IF i > done.capture_index THEN INVALID_POINT ELSE @[i]] ],
        stones_captured |-> done.stones_captured ]

_capture_dead_chains(s, p, c) ==
  LET Step(acc, n) == CaptureNeighbour(acc, c, n)
      done == ForNeighbours(Step, [s |-> s, stones_captured |-> 0, capture_index |-> 0], p)
  IN  [ s |-> [ done.s EXCEPT !.last_captures =
                  [i \in 1..4 |-> IF i > done.capture_index THEN INVALID_POINT ELSE @[i]] ],
        stones_captured |-> done.stones_captured ]

\* Mutant: an EMPTY neighbour does not spoil the eye.
played_in_enemy_eye_mut_ignores_empty(s, p, c) ==
  \A i \in 1..4 : point_color(s, neighbours(p)[i]) # c

played_in_enemy_eye(s, p, c) ==
  \A i \in 1..4 :
    LET nc == point_color(s, neighbours(p)[i])
    IN  ~(nc = c \/ nc = EMPTY)

\* The board after the stone is joined, set and taken off its neighbours'
\* liberties, before _capture_dead_chains runs.
AfterPlacement(s, p, c) ==
  _remove_liberty_from_neighbouring_chains(
    _set_stone(_join_chains_around(s, p, c), p, c), p)

\* Mutant: a PASS also empties the capture buffer.
play_mut_pass_clears_captures(s, p, c) ==
  IF p = PASS
    THEN [s |-> [s EXCEPT !.last_ko_point = INVALID_POINT,
                          !.last_captures = [i \in 1..4 |-> INVALID_POINT]],
          error |-> "none"]
  ELSE IF s.color[p] # EMPTY
    THEN [s |-> s, error |-> "AssertionError"]
  ELSE
    LET eye == played_in_enemy_eye(s, p, c)
        captured == _capture_dead_chains(AfterPlacement(s, p, c), p, c)
        final == [ captured.s EXCEPT !.last_ko_point =
                     IF eye /\ captured.stones_captured = 1
                       THEN captured.s.last_captures[1]
                       ELSE INVALID_POINT ]
    IN  [ s |-> final,
          error |-> IF chain_of(final, p).num_pseudo_liberties > 0
                      THEN "none" ELSE "AssertionError" ]

\* play(p, c): the board it leaves and the exception it raises, if any.
play(s, p, c) ==
  IF p = PASS
    THEN [s |-> [s EXCEPT !.last_ko_point = INVALID_POINT], error |-> "none"]
  ELSE IF s.color[p] # EMPTY
    THEN [s |-> s, error |-> "AssertionError"]
  ELSE
    LET eye == played_in_enemy_eye(s, p, c)
        captured == _capture_dead_chains(AfterPlacement(s, p, c), p, c)
        final == [ captured.s EXCEPT !.last_ko_point =
                     IF eye /\ captured.stones_captured = 1
                       THEN captured.s.last_captures[1]
                       ELSE INVALID_POINT ]
    IN  [ s |-> final,
          error |-> IF chain_of(final, p).num_pseudo_liberties > 0
                      THEN "none" ELSE "AssertionError" ]

\* --------------------------------------------------------------- behaviour
Become(r) ==
  /\ chain_head' = r.s.chain_head
  /\ chain_next' = r.s.chain_next
  /\ color' = r.s.color
  /\ chains' = r.s.chains
  /\ last_ko_point' = r.s.last_ko_point
  /\ last_captures' = r.s.last_captures
  /\ zobrist_hash' = r.s.zobrist_hash
  /\ error' = r.error

Init ==
  /\ chain_head = InitBoard.chain_head
  /\ chain_next = InitBoard.chain_next
  /\ color = InitBoard.color
  /\ chains = InitBoard.chains
  /\ last_ko_point = InitBoard.last_ko_point
  /\ last_captures = InitBoard.last_captures
  /\ zobrist_hash = InitBoard.zobrist_hash
  /\ error = "none"
  /\ moves = 0
  /\ heap = << >>
  /\ handles = << >>
  /\ alone = << >>
  /\ diagram = [pending |-> FALSE, lines |-> << >>]
  /\ parse = NotParsing
  /\ convert = NotConverting
  /\ to_play = BLACK

\* A caller picks a move that is_legal_move accepts and plays it.
PlayStone ==
  /\ error = "none"
  /\ moves < MaxMoves
  /\ \E p \in Cells \ {PASS}, c \in {BLACK, WHITE} :
       /\ is_legal_move(Self, p, c)
       /\ Become(play(Self, p, c))
  /\ moves' = moves + 1
  /\ UNCHANGED << searchVars, diagram, parse, convert, to_play >>

PlayPass ==
  /\ error = "none"
  /\ \E c \in {BLACK, WHITE} :
       /\ is_legal_move(Self, PASS, c)
       /\ Become(play(Self, PASS, c))
  /\ UNCHANGED << moves, searchVars, diagram, parse, convert, to_play >>

Next == PlayStone \/ PlayPass

Spec == Init /\ [][Next]_vars

\* ------------------------------------------------------------------- clone
\* A GoBoard instance holds references to three list objects (_board,
\* _chains, _last_captures) and two integers; heap maps a reference to the
\* contents of the list it names.

\* GoBoard(board_size): three fresh lists on the heap h and the instance.
GoBoard(h) ==
  [ heap |-> h \o << [ chain_head |-> InitBoard.chain_head,
                       chain_next |-> InitBoard.chain_next,
                       color |-> InitBoard.color ],
                     InitBoard.chains,
                     InitBoard.last_captures >>,
    board |-> [ _board |-> Len(h) + 1,
                _chains |-> Len(h) + 2,
                _last_captures |-> Len(h) + 3,
                _last_ko_point |-> InitBoard.last_ko_point,
                _zobrist_hash |-> InitBoard.zobrist_hash ] ]

\* The board an instance b denotes on the heap h.
Deref(h, b) ==
  [ chain_head |-> h[b._board].chain_head,
    chain_next |-> h[b._board].chain_next,
    color |-> h[b._board].color,
    chains |-> h[b._chains],
    last_ko_point |-> b._last_ko_point,
    last_captures |-> h[b._last_captures],
    zobrist_hash |-> b._zobrist_hash ]

\* The writes that bring the instance b to the board s: into its own lists
\* and its own integer fields.
Store(h, b, s) ==
  [ heap |-> [ i \in 1..Len(h) |->
                 IF i = b._last_captures THEN s.last_captures
                 ELSE IF i = b._chains THEN s.chains
                 ELSE IF i = b._board
                   THEN [ chain_head |-> s.chain_head,
                          chain_next |-> s.chain_next,
                          color |-> s.color ]
                 ELSE h[i] ],
    board |-> [ b EXCEPT !._last_ko_point = s.last_ko_point,
                         !._zobrist_hash = s.zobrist_hash ] ]

\* Mutant: the copy keeps the source's _chains list instead of filling its own.
clone_mut_shares_chains(h, b) ==
  LET other == GoBoard(h)
      shared == [other.board EXCEPT !._chains = b._chains]
  IN  Store(other.heap, shared, Deref(h, b))

clone(h, b) ==
  LET other == GoBoard(h)
  IN  Store(other.heap, other.board, Deref(h, b))

InitSearch ==
  /\ chain_head = InitBoard.chain_head
  /\ chain_next = InitBoard.chain_next
  /\ color = InitBoard.color
  /\ chains = InitBoard.chains
  /\ last_ko_point = InitBoard.last_ko_point
  /\ last_captures = InitBoard.last_captures
  /\ zobrist_hash = InitBoard.zobrist_hash
  /\ error = "none"
  /\ moves = 0
  /\ heap = GoBoard(<< >>).heap
  /\ handles = << GoBoard(<< >>).board >>
  /\ alone = << InitBoard >>
  /\ diagram = [pending |-> FALSE, lines |-> << >>]
  /\ parse = NotParsing
  /\ convert = NotConverting
  /\ to_play = BLACK

\* A worker takes a copy of one of the boards (scratch = board.clone()).
CloneBoard ==
  /\ error = "none"
  /\ Len(handles) < MaxBoards
  /\ \E i \in 1..Len(handles) :
       LET r == clone(heap, handles[i])
       IN  /\ heap' = r.heap
           /\ handles' = Append(handles, r.board)
           /\ alone' = Append(alone, Deref(heap, handles[i]))
  /\ UNCHANGED << boardVars, error, moves, diagram, parse, convert, to_play >>

\* A worker plays a move that is_legal_move accepts on one of the boards.
PlayOnBoard ==
  /\ error = "none"
  /\ moves < MaxSearchMoves
  /\ \E i \in 1..Len(handles), p \in Cells \cup {PASS}, c \in {BLACK, WHITE} :
       LET r == play(Deref(heap, handles[i]), p, c)
           written == Store(heap, handles[i], r.s)
       IN  /\ is_legal_move(Deref(heap, handles[i]), p, c)
           /\ heap' = written.heap
           /\ handles' = [handles EXCEPT ![i] = written.board]
           /\ alone' = [alone EXCEPT ![i] = play(alone[i], p, c).s]
           /\ error' = r.error
  /\ moves' = moves + 1
  /\ UNCHANGED << boardVars, diagram, parse, convert, to_play >>

NextSearch == CloneBoard \/ PlayOnBoard

SpecSearch == InitSearch /\ [][NextSearch]_vars

\* ------------------------------------------------------------ create_board
\* create_board builds GoBoard(19); the model builds the board of side
\* BoardSize and takes diagrams of at most BoardSize lines and columns.
\* A diagram is s.split('\n'): a sequence of lines, each a sequence of
\* characters.
Glyphs == {" ", "X", "O", "+"}

\* Body of the inner loop; acc carries the board, the exception raised (if
\* any), row, col and stones_started.
\* acc after board.play has returned r for an 'X' or an 'O'.
CreateBoardPlayed(acc, r) ==
  [acc EXCEPT !.s = r.s, !.error = r.error, !.stones_started = TRUE, !.col = @ + 1]

CreateBoardChar(acc, ch) ==
  IF acc.error # "none" THEN acc
  ELSE IF ch = " "
    THEN IF acc.stones_started THEN [acc EXCEPT !.error = "AssertionError"] ELSE acc
  ELSE IF ch = "X" \/ ch = "O"
    THEN CreateBoardPlayed(acc, play(acc.s, point_from_2d(acc.row, acc.col),
                                     IF ch = "X" THEN BLACK ELSE WHITE))
  ELSE [acc EXCEPT !.col = @ + 1]

\* The inner loop from the i-th character of line on.
RECURSIVE CreateBoardLine(_, _, _)
CreateBoardLine(acc, line, i) ==
  IF i > Len(line) THEN acc
  ELSE CreateBoardLine(CreateBoardChar(acc, line[i]), line, i + 1)

\* col = 0; stones_started = False
CreateBoardStartLine(acc) == [acc EXCEPT !.col = 0, !.stones_started = FALSE]

\* row += 1
CreateBoardEndLine(acc) == [acc EXCEPT !.row = @ + 1]

\* The outer loop from the j-th line on.
RECURSIVE CreateBoardLines(_, _, _)
CreateBoardLines(acc, lines, j) ==
  IF j > Len(lines) THEN acc
  ELSE CreateBoardLines(
         CreateBoardEndLine(CreateBoardLine(CreateBoardStartLine(acc), lines[j], 1)),
         lines, j + 1)

\* return board
CreateBoardResult(done) == [s |-> done.s, error |-> done.error]

\* Mutant: numbers the first line 1 instead of 0.
create_board_mut_first_row_one(lines) ==
  CreateBoardResult(CreateBoardLines(
    [s |-> InitBoard, error |-> "none", row |-> 1, col |-> 0,
     stones_started |-> FALSE], lines, 1))

\* create_board(s): the board it returns and the exception it raises, if any.
create_board(lines) ==
  CreateBoardResult(CreateBoardLines(
    [s |-> InitBoard, error |-> "none", row |-> 0, col |-> 0,
     stones_started |-> FALSE], lines, 1))

\* The diagrams handed to create_board: up to MaxDiagramLines lines of up to
\* BoardSize characters each, and every full grid of stones and '+'.
DiagramLine == UNION { [1..k -> Glyphs] : k \in 0..BoardSize }

Diagrams ==
  UNION { [1..k -> DiagramLine] : k \in 1..MaxDiagramLines }
    \cup [1..BoardSize -> [1..BoardSize -> {"X", "O", "+"}]]

InitDiagram ==
  /\ chain_head = InitBoard.chain_head
  /\ chain_next = InitBoard.chain_next
  /\ color = InitBoard.color
  /\ chains = InitBoard.chains
  /\ last_ko_point = InitBoard.last_ko_point
  /\ last_captures = InitBoard.last_captures
  /\ zobrist_hash = InitBoard.zobrist_hash
  /\ error = "none"
  /\ moves = 0
  /\ heap = << >>
  /\ handles = << >>
  /\ alone = << >>
  /\ diagram \in {[pending |-> TRUE, lines |-> d] : d \in Diagrams}
  /\ parse = NotParsing
  /\ convert = NotConverting
  /\ to_play = BLACK

\* board = create_board(diagram)
CreateBoard ==
  /\ diagram.pending
  /\ Become(create_board(diagram.lines))
  /\ diagram' = [diagram EXCEPT !.pending = FALSE]
  /\ UNCHANGED << moves, searchVars, parse, convert, to_play >>

\* A caller plays a move that is_legal_move accepts on the board built.
PlayOnDiagram ==
  /\ ~diagram.pending
  /\ error = "none"
  /\ moves < MaxDiagramMoves
  /\ \E p \in Cells \ {PASS}, c \in {BLACK, WHITE} :
       /\ is_legal_move(Self, p, c)
       /\ Become(play(Self, p, c))
  /\ moves' = moves + 1
  /\ UNCHANGED << searchVars, diagram, parse, convert, to_play >>

NextDiagram == CreateBoard \/ PlayOnDiagram

SpecDiagram == InitDiagram /\ [][NextDiagram]_vars

\* ------------------------------------------------------------- parse_point
\* A string is a sequence of one-character strings.
LowerCase ==
  << "a", "b", "c", "d", "e", "f", "g", "h", "i", "j", "k", "l", "m",
     "n", "o", "p", "q", "r", "s", "t", "u", "v", "w", "x", "y", "z" >>

UpperCase ==
  << "A", "B", "C", "D", "E", "F", "G", "H", "I", "J", "K", "L", "M",
     "N", "O", "P", "Q", "R", "S", "T", "U", "V", "W", "X", "Y", "Z" >>

Digits == << "0", "1", "2", "3", "4", "5", "6", "7", "8", "9" >>

\* The position of ch in seq, 0 if it is not there.
IndexIn(seq, ch) ==
  IF \E i \in 1..Len(seq) : seq[i] = ch
    THEN CHOOSE i \in 1..Len(seq) : seq[i] = ch
    ELSE 0

\* ord(ch) for the letters, the digits and the signs.
ord(ch) ==
  IF IndexIn(LowerCase, ch) > 0 THEN 96 + IndexIn(LowerCase, ch)
  ELSE IF IndexIn(UpperCase, ch) > 0 THEN 64 + IndexIn(UpperCase, ch)
  ELSE IF IndexIn(Digits, ch) > 0 THEN 47 + IndexIn(Digits, ch)
  ELSE IF ch = "-" THEN 45
  ELSE IF ch = "+" THEN 43
  ELSE 32

\* str.lower()
lower(str) ==
  [ i \in 1..Len(str) |->
      IF IndexIn(UpperCase, str[i]) > 0
        THEN LowerCase[IndexIn(UpperCase, str[i])]
        ELSE str[i] ]

\* The value of a string of digits.
RECURSIVE DecimalValue(_)
DecimalValue(str) ==
  IF Len(str) = 0 THEN 0
  ELSE 10 * DecimalValue(SubSeq(str, 1, Len(str) - 1))
         + IndexIn(Digits, str[Len(str)]) - 1

AllDigits(str) ==
  Len(str) > 0 /\ \A i \in 1..Len(str) : IndexIn(Digits, str[i]) > 0

\* int(str) for strings of letters, digits and signs: the exception it
\* raises ("none" if it returns) and the value it returns.
int(str) ==
  IF AllDigits(str)
    THEN [error |-> "none", value |-> DecimalValue(str)]
  ELSE IF Len(str) > 1 /\ str[1] = "-" /\ AllDigits(Tail(str))
    THEN [error |-> "none", value |-> 0 - DecimalValue(Tail(str))]
  ELSE IF Len(str) > 1 /\ str[1] = "+" /\ AllDigits(Tail(str))
    THEN [error |-> "none", value |-> DecimalValue(Tail(str))]
  ELSE [error |-> "ValueError", value |-> 0]

\* parse_point(s): the exception it raises ("none" if it returns) and the
\* point it returns.
parse_point(str) ==
  LET s == lower(str)
      col == ord(s[1]) - ord("a") + (IF ord(s[1]) <= ord("i") THEN 1 ELSE 0)
      row == int(Tail(s))
  IN  IF s = << "p", "a", "s", "s" >>
        THEN [error |-> "none", point |-> PASS]
      ELSE IF Len(s) < 2 \/ Len(s) > 3
        THEN [error |-> "none", point |-> INVALID_POINT]
      ELSE IF row.error # "none"
        THEN [error |-> row.error, point |-> INVALID_POINT]
      ELSE [error |-> "none", point |-> row.value * VIRTUAL_BOARD_SIZE + col]

\* The characters of the strings handed to parse_point.
ParseAlphabet ==
  { "a", "A", "i", "j", "t", "u", "p", "s", "S", "0", "1", "9", "-" }

ParseInputs == UNION { [1..k -> ParseAlphabet] : k \in 0..MaxStrLen }

InitParse ==
  /\ chain_head = InitBoard.chain_head
  /\ chain_next = InitBoard.chain_next
  /\ color = InitBoard.color
  /\ chains = InitBoard.chains
  /\ last_ko_point = InitBoard.last_ko_point
  /\ last_captures = InitBoard.last_captures
  /\ zobrist_hash = InitBoard.zobrist_hash
  /\ error = "none"
  /\ moves = 0
  /\ heap = << >>
  /\ handles = << >>
  /\ alone = << >>
  /\ diagram = [pending |-> FALSE, lines |-> << >>]
  /\ parse \in { [s |-> str, called |-> FALSE, error |-> "none",
                   point |-> INVALID_POINT] : str \in ParseInputs }
  /\ convert = NotConverting
  /\ to_play = BLACK

\* p = parse_point(s)
ParsePoint ==
  /\ ~parse.called
  /\ parse' = [ parse EXCEPT !.called = TRUE,
                              !.error = parse_point(parse.s).error,
                              !.point = parse_point(parse.s).point ]
  /\ UNCHANGED << boardVars, error, moves, searchVars, diagram, convert, to_play >>

NextParse == ParsePoint

SpecParse == InitParse /\ [][NextParse]_vars

\* ------------------------------------------------------------ format_point
_COLS ==
  << "A", "B", "C", "D", "E", "F", "G", "H", "J", "K", "L", "M", "N", "O",
     "P", "Q", "R", "S", "T" >>

\* str(n) of an integer.
RECURSIVE DecimalString(_)
DecimalString(n) ==
  IF n < 0 THEN << "-" >> \o DecimalString(0 - n)
  ELSE IF n < 10 THEN << Digits[n + 1] >>
  ELSE DecimalString(n \div 10) \o << Digits[(n % 10) + 1] >>

\* Mutant: the row is printed as it is counted, from zero.
format_point_mut_row_from_zero(p) ==
  LET row == point_to_2d(p)[1]
      col == point_to_2d(p)[2]
  IN  IF col >= 0 /\ col < Len(_COLS)
        THEN [error |-> "none", text |-> << _COLS[col + 1] >> \o DecimalString(row)]
      ELSE IF col < 0 /\ col >= 0 - Len(_COLS)
        THEN [error |-> "none",
              text |-> << _COLS[Len(_COLS) + col + 1] >> \o DecimalString(row)]
      ELSE [error |-> "IndexError", text |-> << >>]

\* format_point(p): the exception it raises ("none" if it returns) and the
\* text it returns.  _COLS[col] counts a negative col from the end.
format_point(p) ==
  LET row == point_to_2d(p)[1]
      col == point_to_2d(p)[2]
  IN  IF col >= 0 /\ col < Len(_COLS)
        THEN [error |-> "none", text |-> << _COLS[col + 1] >> \o DecimalString(row + 1)]
      ELSE IF col < 0 /\ col >= 0 - Len(_COLS)
        THEN [error |-> "none",
              text |-> << _COLS[Len(_COLS) + col + 1] >> \o DecimalString(row + 1)]
      ELSE [error |-> "IndexError", text |-> << >>]

\* The points handed to format_point: every cell of the grid (PASS is one
\* of them) and INVALID_POINT.
ConvertPoints ==
  0..(VIRTUAL_BOARD_SIZE * VIRTUAL_BOARD_SIZE - 1) \cup {INVALID_POINT, PASS}

\* The texts handed to parse_point: a letter and a number.
ConvertTexts ==
  { << l >> \o DecimalString(n) :
      l \in { UpperCase[i] : i \in 1..VIRTUAL_BOARD_SIZE } \cup {"a", "j", "t"},
      n \in 0..(VIRTUAL_BOARD_SIZE - 1) }

InitConvert ==
  /\ chain_head = InitBoard.chain_head
  /\ chain_next = InitBoard.chain_next
  /\ color = InitBoard.color
  /\ chains = InitBoard.chains
  /\ last_ko_point = InitBoard.last_ko_point
  /\ last_captures = InitBoard.last_captures
  /\ zobrist_hash = InitBoard.zobrist_hash
  /\ error = "none"
  /\ moves = 0
  /\ heap = << >>
  /\ handles = << >>
  /\ alone = << >>
  /\ diagram = [pending |-> FALSE, lines |-> << >>]
  /\ parse = NotParsing
  /\ to_play = BLACK
  /\ convert \in
       { [NotConverting EXCEPT !.kind = "point", !.step = 0, !.point_in = p] :
           p \in ConvertPoints }
       \cup
       { [NotConverting EXCEPT !.kind = "text", !.step = 0, !.text_in = t] :
           t \in ConvertTexts }

\* text = format_point(point_in)
FormatPoint ==
  /\ convert.kind = "point" /\ convert.step = 0
  /\ convert' = [ convert EXCEPT !.step = 1,
                                  !.text = format_point(convert.point_in).text,
                                  !.error = format_point(convert.point_in).error ]
  /\ UNCHANGED << boardVars, error, moves, searchVars, diagram, parse, to_play >>

\* point = parse_point(text)
ParseFormatted ==
  /\ convert.kind = "point" /\ convert.step = 1 /\ convert.error = "none"
  /\ convert' = [ convert EXCEPT !.step = 2,
                                  !.point = parse_point(convert.text).point,
                                  !.error = parse_point(convert.text).error ]
  /\ UNCHANGED << boardVars, error, moves, searchVars, diagram, parse, to_play >>

\* point = parse_point(text_in)
ParseText ==
  /\ convert.kind = "text" /\ convert.step = 0
  /\ convert' = [ convert EXCEPT !.step = 1,
                                  !.point = parse_point(convert.text_in).point,
                                  !.error = parse_point(convert.text_in).error ]
  /\ UNCHANGED << boardVars, error, moves, searchVars, diagram, parse, to_play >>

\* text = format_point(point)
FormatParsed ==
  /\ convert.kind = "text" /\ convert.step = 1 /\ convert.error = "none"
  /\ convert' = [ convert EXCEPT !.step = 2,
                                  !.text = format_point(convert.point).text,
                                  !.error = format_point(convert.point).error ]
  /\ UNCHANGED << boardVars, error, moves, searchVars, diagram, parse, to_play >>

NextConvert == FormatPoint \/ ParseFormatted \/ ParseText \/ FormatParsed

SpecConvert == InitConvert /\ [][NextConvert]_vars

\* ------------------------------------------------------------- random play
\* The loop of test_random_play: the side to move plays any of its legal
\* moves other than PASS, then the other side moves; the loop ends when the
\* side to move has none.  The loop counts nothing.  The board is the one of
\* side RandomPlayBoardSize: the cells beyond it are GUARD, which
\* is_legal_move refuses as it refuses a point outside the board area.
\* Mutant: every EMPTY point counts as a legal move.
legal_moves_mut_any_empty_point(s, c) ==
  {p \in BoardPointsOf(RandomPlayBoardSize) : is_empty(s, p)}

legal_moves(s, c) ==
  {p \in BoardPointsOf(RandomPlayBoardSize) : is_legal_move(s, p, c)}

InitRandomPlay ==
  /\ chain_head = InitBoardOf(RandomPlayBoardSize).chain_head
  /\ chain_next = InitBoardOf(RandomPlayBoardSize).chain_next
  /\ color = InitBoardOf(RandomPlayBoardSize).color
  /\ chains = InitBoardOf(RandomPlayBoardSize).chains
  /\ last_ko_point = InitBoardOf(RandomPlayBoardSize).last_ko_point
  /\ last_captures = InitBoardOf(RandomPlayBoardSize).last_captures
  /\ zobrist_hash = InitBoardOf(RandomPlayBoardSize).zobrist_hash
  /\ error = "none"
  /\ moves = 0
  /\ heap = << >>
  /\ handles = << >>
  /\ alone = << >>
  /\ diagram = [pending |-> FALSE, lines |-> << >>]
  /\ parse = NotParsing
  /\ convert = NotConverting
  /\ to_play = BLACK

\* move = random.choice(legal_moves); board.play(move, to_play)
RandomPlayMove ==
  /\ error = "none"
  /\ \E move \in legal_moves(Self, to_play) : Become(play(Self, move, to_play))
  /\ to_play' = opponent(to_play)
  /\ UNCHANGED << moves, searchVars, diagram, parse, convert >>

NextRandomPlay == RandomPlayMove

\* A turn of the loop: there is a legal move and the side to move changes.
\* Every RandomPlayMove is one, and the loop takes its next turn as long as
\* there is a legal move.
RandomPlayTurn ==
  /\ error = "none"
  /\ legal_moves(Self, to_play) # {}
  /\ to_play' = opponent(to_play)

SpecRandomPlay == InitRandomPlay /\ [][NextRandomPlay]_vars /\ WF_to_play(RandomPlayTurn)

\* ----------------------------------------------- reference rules of Go
\* The notions the properties below compare the data structure with are
\* computed from the colour array alone.
Stones == {BLACK, WHITE}

StonePoints(col) == {p \in board_points : col[p] \in Stones}

RECURSIVE RefGrow(_, _, _)
RefGrow(col, c, S) ==
  LET more == {n \in UNION {NeighbourSet(q) : q \in S} : col[n] = c} \ S
  IN  IF more = {} THEN S ELSE RefGrow(col, c, S \cup more)

\* The maximal connected same-coloured set that holds p.
RefChain(col, p) == RefGrow(col, col[p], {p})

\* The (stone, adjacent EMPTY point) pairs of a set of stones.
RefLibertyPairs(col, S) ==
  {pair \in {<<q, neighbours(q)[i]>> : q \in S, i \in 1..4} :
     col[pair[2]] = EMPTY}

RefLiberties(col, S) ==
  {n \in UNION {NeighbourSet(q) : q \in S} : col[n] = EMPTY}

RECURSIVE SumSecond(_)
SumSecond(pairs) ==
  IF pairs = {} THEN 0
  ELSE LET x == CHOOSE y \in pairs : TRUE
       IN  x[2] + SumSecond(pairs \ {x})

RECURSIVE SumSecondSquared(_)
SumSecondSquared(pairs) ==
  IF pairs = {} THEN 0
  ELSE LET x == CHOOSE y \in pairs : TRUE
       IN  x[2] * x[2] + SumSecondSquared(pairs \ {x})

\* The colour array after a c stone is put on p and every opposing chain
\* left without liberties is taken off.
RefPlaced(col, p, c) == [col EXCEPT ![p] = c]

\* Some stone of S has an EMPTY neighbour.
RefHasLiberty(col, S) ==
  \E q \in S : \E i \in 1..4 : col[neighbours(q)[i]] = EMPTY

\* The opposing stones anywhere on the board whose chain has no liberty once
\* c stands on p (a stone with an EMPTY neighbour needs no search).
RefDead(col, p, c) ==
  LET col1 == RefPlaced(col, p, c)
  IN  {q \in board_points :
         /\ col1[q] = opponent(c)
         /\ ~RefHasLiberty(col1, {q})
         /\ ~RefHasLiberty(col1, RefChain(col1, q))}

RefAfterCapture(col, p, c) ==
  LET dead == RefDead(col, p, c)
      col1 == RefPlaced(col, p, c)
  IN  [q \in DOMAIN col |-> IF q \in dead THEN EMPTY ELSE col1[q]]

RefLegal(col, ko, p, c) ==
  \/ p = PASS
  \/ /\ p \in board_points
     /\ col[p] = EMPTY
     /\ p # ko
     /\ LET col2 == RefAfterCapture(col, p, c)
        IN  RefHasLiberty(col2, RefChain(col2, p))

\* chain_next applied k times.
RECURSIVE NextIter(_, _)
NextIter(p, k) == IF k = 0 THEN p ELSE chain_next[NextIter(p, k - 1)]

\* -------------------------------------------------------------- properties

\* C1: a play that is_legal_move accepted never trips an assertion of play:
\* the target was EMPTY (or PASS) and the played chain keeps a pseudo-liberty.
C1_LegalPlayTripsNoAssertion == error = "none"

\* A stone stands that was legal only because it captured: it was played into
\* an enemy eye and left a ko point.
C1_Witness ==
  /\ error = "none"
  /\ last_ko_point # INVALID_POINT
  /\ \E p \in board_points : color[p] \in Stones /\ in_atari(Self, p)

\* C2: is_legal_move agrees with the reference rule (PASS, or in the board,
\* EMPTY, not the ko point and not suicide) for both colours.
C2_LegalMatchesReference ==
  \A p \in Cells \cup {PASS, INVALID_POINT}, c \in Stones :
    is_legal_move(Self, p, c) <=> RefLegal(color, last_ko_point, p, c)

\* Some EMPTY point that is not the ko point is refused as suicide while the
\* other colour may play there.
C2_Witness ==
  \E p \in board_points, c \in Stones :
    /\ color[p] = EMPTY
    /\ p # last_ko_point
    /\ ~is_legal_move(Self, p, c)
    /\ is_legal_move(Self, p, opponent(c))

\* C3: orthogonally adjacent stones of one colour report the same chain head.
C3_NeighboursShareHead ==
  \A p \in StonePoints(color) :
    \A i \in 1..4 :
      color[neighbours(p)[i]] = color[p] =>
        chain_head[p] = chain_head[neighbours(p)[i]]

\* A chain of at least three stones whose head is not the stone looked at.
C3_Witness ==
  \E p \in StonePoints(color) :
    /\ chain_size(Self, p) >= 3
    /\ chain_head[p] # p
    /\ \E i \in 1..4 : color[neighbours(p)[i]] = color[p]

\* C4: following chain_next from a stone returns to it after exactly
\* chain_size steps, never earlier, through points of its head and colour.
C4_ChainNextIsCycle ==
  \A p \in StonePoints(color) :
    LET n == chain_size(Self, p)
    IN  /\ n >= 1
        /\ NextIter(p, n) = p
        /\ \A k \in 1..(n - 1) :
             /\ NextIter(p, k) # p
             /\ chain_head[NextIter(p, k)] = chain_head[p]
             /\ color[NextIter(p, k)] = color[p]

\* A chain of at least four stones, none of them linked to itself.
C4_Witness ==
  \E p \in StonePoints(color) :
    /\ chain_size(Self, p) >= 4
    /\ \A q \in RefChain(color, p) : chain_next[q] # q

\* C5: the record of a chain of stones counts the (stone, adjacent EMPTY
\* point) pairs and sums their points and squared points; so the count is at
\* least the number of distinct liberties and 0 iff there is none.
C5_PseudoLibertiesArePairs ==
  \A p \in StonePoints(color) :
    LET group == RefChain(color, p)
        pairs == RefLibertyPairs(color, group)
        libs == RefLiberties(color, group)
        ch == chain_of(Self, p)
    IN  /\ ch.num_pseudo_liberties = Cardinality(pairs)
        /\ ch.liberty_vertex_sum = SumSecond(pairs)
        /\ ch.liberty_vertex_sum_squared = BigFromInt(SumSecondSquared(pairs))
        /\ ch.num_pseudo_liberties >= Cardinality(libs)
        /\ ch.num_pseudo_liberties = 0 <=> libs = {}

\* A chain counts one EMPTY point more than once.
C5_Witness ==
  \E p \in StonePoints(color) :
    chain_of(Self, p).num_pseudo_liberties >
      Cardinality(RefLiberties(color, RefChain(color, p)))

\* C6: in_atari(p) holds iff the chain of the stone p has exactly one distinct
\* liberty, and single_liberty(p) then returns that point without raising.
C6_AtariIsOneLiberty ==
  \A p \in StonePoints(color) :
    LET libs == RefLiberties(color, RefChain(color, p))
    IN  /\ in_atari(Self, p) <=> Cardinality(libs) = 1
        /\ in_atari(Self, p) =>
             /\ single_liberty(Self, p).error = "none"
             /\ libs = {single_liberty(Self, p).point}

\* A chain in atari whose only liberty is counted twice.
C6_Witness ==
  \E p \in StonePoints(color) :
    /\ in_atari(Self, p)
    /\ chain_of(Self, p).num_pseudo_liberties >= 2

\* C10: the hash is the XOR of the table values of the stones on the board.
RECURSIVE RefHash(_, _)
RefHash(col, S) ==
  IF S = {} THEN 0
  ELSE LET p == CHOOSE q \in S : TRUE
       IN  Xor(ZobristValue(p, col[p]), RefHash(col, S \ {p}))

C10_HashIsXorOfStones == zobrist_hash = RefHash(color, StonePoints(color))

\* Stones stand on a board from which a chain has been captured.
C10_Witness ==
  /\ last_captures[1] # INVALID_POINT
  /\ StonePoints(color) # {}
  /\ zobrist_hash # 0

\* The board of the next state, for queries made after a step.
SelfNext ==
  [ chain_head |-> chain_head', chain_next |-> chain_next', color |-> color',
    chains |-> chains', last_ko_point |-> last_ko_point',
    last_captures |-> last_captures', zobrist_hash |-> zobrist_hash' ]

\* The step puts a c stone on p.
StonePlayed(p, c) == color[p] = EMPTY /\ color'[p] = c

\* The step is a PASS that changes the board.
PassPlayed == color' = color /\ last_ko_point' # last_ko_point

\* The stones the step takes off the board.
Vacated == {q \in board_points : color[q] \in Stones /\ color'[q] = EMPTY}

\* p was played where no neighbour was EMPTY or of colour c.
RefEnemyEye(p, c) ==
  \A i \in 1..4 : color[neighbours(p)[i]] \notin {EMPTY, c}

\* C7: a play on p empties every opposing chain next to p that the placement
\* left without liberty, changes no other colour than p's, and raises the
\* pseudo-liberty count of every record next to a vacated point by one for
\* each adjacency to a vacated point.
C7_CaptureEffect ==
  [][ \A p \in board_points, c \in Stones :
        StonePlayed(p, c) =>
          LET col1 == RefPlaced(color, p, c)
              dead == UNION { IF /\ col1[n] = opponent(c)
                                 /\ ~RefHasLiberty(col1, {n})
                                 /\ ~RefHasLiberty(col1, RefChain(col1, n))
                                THEN RefChain(col1, n)
                                ELSE {} : n \in NeighbourSet(p) }
              mid == AfterPlacement(Self, p, c)
              Members(h) == {x \in Cells \ dead : chain_head'[x] = h}
              Regained(h) ==
                Cardinality({pair \in Members(h) \X (1..4) :
                               neighbours(pair[1])[pair[2]] \in dead})
          IN  /\ \A q \in dead : color'[q] = EMPTY
              /\ \A q \in Cells \ (dead \cup {p}) : color'[q] = color[q]
              /\ dead # {} =>
                   /\ \A h \in {chain_head'[q] : q \in Cells \ dead} :
                        chains'[h].num_pseudo_liberties =
                          mid.chains[h].num_pseudo_liberties + Regained(h)
                   /\ \A q \in dead :
                        /\ chain_head'[q] = q
                        /\ chains'[q].num_pseudo_liberties =
                             Cardinality(NeighbourSet(q) \cap dead)
    ]_vars

\* The last play captured a chain of at least two stones: two adjacent points
\* both vacated by it.
C7_Witness ==
  /\ last_captures[1] # INVALID_POINT
  /\ color[last_captures[1]] = EMPTY
  /\ chains[last_captures[1]].num_stones = 1
  /\ \E i \in 1..4 :
       LET n == neighbours(last_captures[1])[i]
       IN  /\ n \in board_points
           /\ color[n] = EMPTY
           /\ chains[n].num_stones = 1
  /\ \E p \in StonePoints(color) : pseudo_liberty(Self, p) >= 2

\* The colour that took the ko: the colour of the stones around the ko point.
KoTaker ==
  CHOOSE c \in Stones :
    \E i \in 1..4 : color[neighbours(last_ko_point)[i]] = c

\* A play into an enemy eye that captures exactly one stone forbids the
\* opponent's immediate recapture.
KoForbidsRecapture ==
  \A p \in board_points, c \in Stones :
    (StonePlayed(p, c) /\ RefEnemyEye(p, c) /\ Cardinality(Vacated) = 1) =>
      \A k \in Vacated : ~is_legal_move(SelfNext, k, opponent(c))

\* C8 as stated: ko lasts one move; after any further play (a stone elsewhere
\* or a PASS) the ko point is no longer last_ko_point and the recapture is
\* legal again.
C8_KoLastsOneMove_AsStated ==
  [][ /\ KoForbidsRecapture
      /\ last_ko_point # INVALID_POINT =>
           /\ last_ko_point' # last_ko_point
           /\ is_legal_move(SelfNext, last_ko_point, opponent(KoTaker))
    ]_vars

\* C8 amended: after any further play the ko point is no longer
\* last_ko_point; the recapture is legal again when that play was a PASS or
\* a stone of the colour that lost the ko stone.
C8_KoLastsOneMove ==
  [][ /\ KoForbidsRecapture
      /\ last_ko_point # INVALID_POINT =>
           /\ last_ko_point' # last_ko_point
           /\ ( \/ PassPlayed
                \/ \E q \in board_points : StonePlayed(q, opponent(KoTaker)) ) =>
                is_legal_move(SelfNext, last_ko_point, opponent(KoTaker))
    ]_vars

\* A PASS has followed a ko capture: the last capture took the single stone
\* on k, the lone stone p that took it stands in the enemy eye next to k, the
\* ko point is cleared and the recapture on k is legal.
C8_Witness ==
  \E k \in board_points, i \in 1..4 :
    LET p == neighbours(k)[i]
    IN  /\ color[k] = EMPTY
        /\ last_captures = [j \in 1..4 |-> IF j = 1 THEN k ELSE INVALID_POINT]
        /\ last_ko_point = INVALID_POINT
        /\ p \in board_points
        /\ color[p] \in Stones
        /\ chain_size(Self, p) = 1
        /\ \A j \in 1..4 :
             neighbours(p)[j] # k =>
               color[neighbours(p)[j]] \in {opponent(color[p]), GUARD}
        /\ is_legal_move(Self, k, opponent(color[p]))

\* C9: after a play on p, last_ko_point is the point of the captured stone
\* iff p had no EMPTY or own-coloured neighbour and exactly one stone was
\* captured, and INVALID otherwise; a ko point is EMPTY, in the board and
\* next to p.
C9_KoPointRule ==
  [][ \A p \in board_points, c \in Stones :
        StonePlayed(p, c) =>
          /\ (RefEnemyEye(p, c) /\ Cardinality(Vacated) = 1) =>
               Vacated = {last_ko_point'}
          /\ ~(RefEnemyEye(p, c) /\ Cardinality(Vacated) = 1) =>
               last_ko_point' = INVALID_POINT
          /\ last_ko_point' # INVALID_POINT =>
               /\ in_board_area(last_ko_point')
               /\ color'[last_ko_point'] = EMPTY
               /\ \E i \in 1..4 : neighbours(p)[i] = last_ko_point'
    ]_vars

\* A ko point is set.
C9_Witness ==
  /\ last_ko_point # INVALID_POINT
  /\ color[last_ko_point] = EMPTY
  /\ last_captures[1] = last_ko_point

\* C11: a clone equals the board it was taken from in every field; whatever
\* the interleaving of play calls on the boards of a search, each board is
\* in the state its own calls alone lead to, and a board that a step did not
\* play on keeps its colour array and hash.
C11_CloneIsIndependent ==
  [][ /\ \A i \in 1..Len(handles') : Deref(heap', handles'[i]) = alone'[i]
      /\ Len(handles') > Len(handles) =>
           /\ \E i \in 1..Len(handles) :
                Deref(heap', handles'[Len(handles')]) = Deref(heap, handles[i])
           /\ \A i \in 1..Len(handles) :
                Deref(heap', handles'[i]) = Deref(heap, handles[i])
      /\ \A i \in 1..Len(handles) :
           alone'[i] = alone[i] =>
             /\ Deref(heap', handles'[i]).color = Deref(heap, handles[i]).color
             /\ Deref(heap', handles'[i]).zobrist_hash =
                  Deref(heap, handles[i]).zobrist_hash
    ]_vars

\* A board and a clone taken from it after a stone was played have each
\* been played on since: they share a stone and each holds a stone the other
\* lacks.
C11_Witness ==
  \E i \in 1..Len(handles), j \in 1..Len(handles) :
    LET a == Deref(heap, handles[i]).color
        b == Deref(heap, handles[j]).color
    IN  /\ i < j
        /\ \E p \in board_points : a[p] \in Stones /\ a[p] = b[p]
        /\ \E p \in board_points : a[p] \in Stones /\ b[p] = EMPTY
        /\ \E p \in board_points : b[p] \in Stones /\ a[p] = EMPTY

\* The board is as GoBoard(board_size) left it: no stone has been played.
JustConstructed == moves = 0

\* C12 as stated: right after construction every in-board point is EMPTY and
\* has exactly 4 pseudo-liberties, edge and corner points included.
C12_StartsWithFourLiberties_AsStated ==
  JustConstructed =>
    \A p \in board_points :
      color[p] = EMPTY /\ pseudo_liberty(Self, p) = 4

\* C12 amended: right after construction every in-board point is EMPTY and
\* has as many pseudo-liberties as it has in-board neighbours.
C12_StartsWithInBoardNeighbours ==
  JustConstructed =>
    \A p \in board_points :
      /\ color[p] = EMPTY
      /\ pseudo_liberty(Self, p) = Cardinality(NeighbourSet(p) \cap board_points)
      /\ chain_of(Self, p).num_pseudo_liberties =
           Cardinality(NeighbourSet(p) \cap board_points)

\* A freshly constructed board with a corner point of 2 pseudo-liberties and
\* an edge point of 3.
C12_Witness ==
  /\ JustConstructed
  /\ \E p \in board_points : pseudo_liberty(Self, p) = 2
  /\ \E p \in board_points : pseudo_liberty(Self, p) = 3

\* C13: a play of PASS (the only step that places no stone) leaves
\* last_ko_point INVALID and changes no colour, chain_head, chain_next, chain
\* record, capture slot or the hash.
C13_PassOnlyClearsKo ==
  [][ moves' = moves =>
        /\ last_ko_point' = INVALID_POINT
        /\ color' = color
        /\ chain_head' = chain_head
        /\ chain_next' = chain_next
        /\ chains' = chains
        /\ last_captures' = last_captures
        /\ zobrist_hash' = zobrist_hash
    ]_vars

\* A PASS has cleared a ko: the capture buffer still names the one stone
\* taken, whose point is EMPTY without an EMPTY neighbour, and no ko point is
\* set.
C13_Witness ==
  /\ last_ko_point = INVALID_POINT
  /\ last_captures[1] # INVALID_POINT
  /\ last_captures[2] = INVALID_POINT
  /\ color[last_captures[1]] = EMPTY
  /\ chains[last_captures[1]].num_pseudo_liberties = 0
  /\ zobrist_hash # 0
  /\ \E i \in 1..4 :
       LET p == neighbours(last_captures[1])[i]
       IN  /\ color[p] \in Stones
           /\ chain_size(Self, p) = 1
           /\ in_atari(Self, p)
           /\ chain_of(Self, p).num_pseudo_liberties = 1

\* The cells of the border ring that the board reads and writes.
GuardCells == Cells \ board_points

\* C14: every cell outside the board area stays GUARD and its own head, no
\* in-board cell is GUARD, and a GUARD cell's record keeps
\* num_pseudo_liberties > 0 and is never in atari: of its 4 border
\* liberties it lacks one for each adjacent stone, whatever was played and
\* captured next to it.
C14_GuardStaysGuard ==
  /\ \A p \in board_points : color[p] # GUARD /\ in_board_area(p)
  /\ \A g \in GuardCells :
       /\ ~in_board_area(g)
       /\ color[g] = GUARD
       /\ chain_head[g] = g
       /\ chain_next[g] = g
       /\ chains[g].num_stones = 0
       /\ chains[g].num_pseudo_liberties > 0
       /\ ~in_atari(Self, g)
       /\ chains[g].num_pseudo_liberties =
            ChainBorder.num_pseudo_liberties
              - Cardinality({n \in NeighbourSet(g) \cap board_points : color[n] \in Stones})

\* Next to one GUARD cell a stone stands (its record is down to 3), and next
\* to another a stone stood and was captured (its record is back at 4).
C14_Witness ==
  /\ \E g \in GuardCells : chains[g].num_pseudo_liberties = 3
  /\ \E g \in GuardCells :
       /\ chains[g].num_pseudo_liberties = 4
       /\ \E n \in NeighbourSet(g) \cap board_points :
            /\ color[n] = EMPTY
            /\ chains[n].num_stones = 1
            /\ \E i \in 1..4 : last_captures[i] = n

\* C15: after a play on p, the leading slots of last_captures hold the
\* pre-move heads of the opposing chains the move removed, one slot per
\* chain, at most 4, and the other slots are INVALID.
C15_CapturesRecordedOnce ==
  [][ \A p \in board_points, c \in Stones :
        (StonePlayed(p, c) /\ moves' = moves + 1) =>
          LET heads == {chain_head[q] : q \in Vacated}
              k == Cardinality(heads)
          IN  /\ k <= 4
              /\ k = Cardinality({RefChain(color, q) : q \in Vacated})
              /\ \A q \in Vacated : color[q] = opponent(c)
              /\ \A i \in 1..4 :
                   IF i <= k THEN last_captures'[i] \in heads
                             ELSE last_captures'[i] = INVALID_POINT
              /\ \A i \in 1..4, j \in 1..4 :
                   (i < j /\ j <= k) => last_captures'[i] # last_captures'[j]
    ]_vars

\* The play that followed create_board put a stone on p and captured a chain
\* that touched p through two neighbours; one slot names its head.
C15_Witness ==
  /\ ~diagram.pending
  /\ moves = 1
  /\ last_captures[1] # INVALID_POINT
  /\ last_captures[2] = INVALID_POINT
  /\ LET built == create_board(diagram.lines).s
     IN  \E p \in board_points :
           /\ built.color[p] = EMPTY
           /\ color[p] \in Stones
           /\ \E i \in 1..4, j \in 1..4 :
                LET n1 == neighbours(p)[i]
                    n2 == neighbours(p)[j]
                IN  /\ i < j
                    /\ built.color[n1] = opponent(color[p])
                    /\ built.color[n2] = opponent(color[p])
                    /\ built.chain_head[n1] = built.chain_head[n2]
                    /\ color[n1] = EMPTY /\ color[n2] = EMPTY
                    /\ last_captures[1] = built.chain_head[n1]

\* A character that takes a column: anything but a blank.
TakesColumn(ch) == ch # " "

\* The character that stands in column col (from 0) of the r-th line, blanks
\* not counted; '+' where the diagram has none.
GlyphAt(lines, r, col) ==
  IF r \in 1..Len(lines) /\ col + 1 <= Len(SelectSeq(lines[r], TakesColumn))
    THEN SelectSeq(lines[r], TakesColumn)[col + 1]
    ELSE "+"

\* The cell p shows the glyph g: an 'X' or 'O' was played there (and stands,
\* or was captured later in the diagram), anything else was never played.
CellShows(p, g) ==
  IF g = "X" \/ g = "O"
    THEN \/ color'[p] = (IF g = "X" THEN BLACK ELSE WHITE)
         \/ color'[p] = EMPTY /\ chains'[p].num_stones = 1
    ELSE color'[p] = EMPTY /\ chains'[p].num_stones = 0

\* C16 as stated: the lines of the diagram, top to bottom, are the rows in
\* decreasing order (the first line is the highest-numbered row).
C16_DiagramRowsDecrease_AsStated ==
  [][ (diagram.pending /\ error' = "none") =>
        \A row \in 0..(BoardSize - 1), col \in 0..(BoardSize - 1) :
          CellShows(point_from_2d(row, col),
                    GlyphAt(diagram.lines, Len(diagram.lines) - row, col))
    ]_vars

\* C16 amended: the lines of the diagram, top to bottom, are the rows in
\* increasing order (the first line is row 1, index 0).
C16_DiagramRowsIncrease ==
  [][ (diagram.pending /\ error' = "none") =>
        \A row \in 0..(BoardSize - 1), col \in 0..(BoardSize - 1) :
          CellShows(point_from_2d(row, col),
                    GlyphAt(diagram.lines, row + 1, col))
    ]_vars

\* create_board has built a board with a BLACK stone on the first row, a
\* WHITE stone on the second and nothing on the others.
C16_Witness ==
  /\ ~diagram.pending
  /\ moves = 0
  /\ error = "none"
  /\ \E col \in 0..(BoardSize - 1) : color[point_from_2d(0, col)] = BLACK
  /\ \E col \in 0..(BoardSize - 1) : color[point_from_2d(1, col)] = WHITE
  /\ \A p \in board_points :
       /\ color[p] = WHITE => point_to_2d(p)[1] = 1
       /\ color[p] = BLACK => point_to_2d(p)[1] = 0

\* The column letters of a board, lower case, as in _COLS.
ColumnLetters ==
  << "a", "b", "c", "d", "e", "f", "g", "h", "j", "k", "l", "m", "n",
     "o", "p", "q", "r", "s", "t" >>

\* A column letter followed by a row number 1..19 without leading zero.
WellFormedCoordinate(str) ==
  /\ Len(str) \in 2..3
  /\ IndexIn(ColumnLetters, lower(str)[1]) > 0
  /\ AllDigits(Tail(str))
  /\ str[2] # "0"
  /\ DecimalValue(Tail(str)) \in 1..19

\* Not a coordinate at all: a wrong length, a tail that is no number, or a
\* first character that is no column letter.
Malformed(str) ==
  /\ lower(str) # << "p", "a", "s", "s" >>
  /\ \/ Len(str) \notin 2..3
     \/ ~AllDigits(Tail(str))
     \/ IndexIn(ColumnLetters, lower(str)[1]) = 0

\* C17: parse_point never raises; it returns PASS for "pass" in any case,
\* the point of a well-formed coordinate and INVALID for a malformed string.
C17_ParseNeverRaises ==
  (parse.called /\ parse # NotParsing) =>
    /\ parse.error = "none"
    /\ lower(parse.s) = << "p", "a", "s", "s" >> => parse.point = PASS
    /\ WellFormedCoordinate(parse.s) =>
         parse.point =
           point_from_2d(DecimalValue(Tail(parse.s)) - 1,
                         IndexIn(ColumnLetters, lower(parse.s)[1]) - 1)
    /\ Malformed(parse.s) => parse.point = INVALID_POINT

\* C18: the stones that share the head of a stone p are exactly the maximal
\* connected set of p's colour that holds p; the head is a stone of that set
\* and its own head, and chain_size(p) is the number of stones of the set.
C18_ChainIsConnectedSet ==
  \A p \in StonePoints(color) :
    LET group == RefChain(color, p)
    IN  /\ {q \in StonePoints(color) : chain_head[q] = chain_head[p]} = group
        /\ chain_head[p] \in group
        /\ chain_head[chain_head[p]] = chain_head[p]
        /\ chain_size(Self, p) = Cardinality(group)

\* Two chains of one colour, of two stones or more each, that do not touch.
C18_Witness ==
  \E p \in StonePoints(color), q \in StonePoints(color) :
    /\ color[p] = color[q]
    /\ chain_head[p] # chain_head[q]
    /\ chain_size(Self, p) >= 2
    /\ chain_size(Self, q) >= 2

\* The fields of the records of the heads H, each record taken once.
RECURSIVE RefTotals(_)
RefTotals(H) ==
  IF H = {} THEN [stones |-> 0, liberties |-> 0, sum |-> 0, squares |-> BigFromInt(0)]
  ELSE LET h == CHOOSE x \in H : TRUE
           rest == RefTotals(H \ {h})
       IN  [ stones |-> rest.stones + chains[h].num_stones,
             liberties |-> rest.liberties + chains[h].num_pseudo_liberties,
             sum |-> rest.sum + chains[h].liberty_vertex_sum,
             squares |-> BigAddBig(rest.squares, chains[h].liberty_vertex_sum_squared) ]

\* C19: a play of c on p next to stones of colour c makes one chain of p and
\* the neighbouring c-chains; its head is the pre-move head of the largest
\* of them, the first in the order of neighbours(p) (p + 21, p - 1, p + 1,
\* p - 21) among equals; the joined record holds each neighbouring chain's
\* fields once, plus the stone and the EMPTY neighbours of p; and no other
\* point that keeps its stone or stays EMPTY changes its head.
C19_JoinKeepsLargestHead ==
  [][ \A p \in board_points, c \in Stones :
        (StonePlayed(p, c) /\ \E i \in 1..4 : color[neighbours(p)[i]] = c) =>
          LET friends == {i \in 1..4 : color[neighbours(p)[i]] = c}
              size(i) == Cardinality(RefChain(color, neighbours(p)[i]))
              best == CHOOSE i \in friends :
                        \A j \in friends :
                          size(j) < size(i) \/ (size(j) = size(i) /\ j >= i)
              h == chain_head[neighbours(p)[best]]
              heads == {chain_head[neighbours(p)[i]] : i \in friends}
              merged == {p} \cup UNION {RefChain(color, neighbours(p)[i]) : i \in friends}
              empties == {i \in 1..4 : color[neighbours(p)[i]] = EMPTY}
              total == RefTotals(heads)
              joined == _join_chains_around(Self, p, c).chains[h]
              RECURSIVE SumOf(_), SquaresOf(_)
              SumOf(I) == IF I = {} THEN 0
                          ELSE LET i == CHOOSE x \in I : TRUE
                               IN  neighbours(p)[i] + SumOf(I \ {i})
              SquaresOf(I) == IF I = {} THEN 0
                              ELSE LET i == CHOOSE x \in I : TRUE
                                   IN  neighbours(p)[i] * neighbours(p)[i] + SquaresOf(I \ {i})
          IN  /\ \A q \in merged : chain_head'[q] = h
              /\ chains'[h].num_stones = Cardinality(merged)
              /\ joined.num_stones = total.stones + 1
              /\ joined.num_pseudo_liberties = total.liberties + Cardinality(empties)
              /\ joined.liberty_vertex_sum = total.sum + SumOf(empties)
              /\ joined.liberty_vertex_sum_squared =
                   BigAddInt(total.squares, SquaresOf(empties))
              /\ \A q \in Cells \ (merged \cup Vacated) :
                   chain_head'[q] = chain_head[q]
    ]_vars

\* The stone p, the last linked into its chain (it follows the head), closed
\* a square of four: its neighbours n1 and n2 were one chain through q.
C19_Witness ==
  \E p \in StonePoints(color) :
    /\ chain_head[p] # p
    /\ chain_next[chain_head[p]] = p
    /\ \E i \in 1..4, j \in 1..4 :
         LET n1 == neighbours(p)[i]
             n2 == neighbours(p)[j]
         IN  /\ i < j
             /\ color[n1] = color[p] /\ color[n2] = color[p]
             /\ \E q \in (NeighbourSet(n1) \cap NeighbourSet(n2)) \ {p} :
                  color[q] = color[p]

\* The points the record of p counts: the liberties of the chain of a stone,
\* the EMPTY neighbours of an EMPTY point.
RecordLiberties(p) ==
  IF color[p] \in Stones THEN RefLiberties(color, RefChain(color, p))
  ELSE RefLiberties(color, {p})

\* C20: for the record of every in-board point, in_atari holds iff the record
\* counts exactly one distinct liberty; in particular it is false for a
\* record with zero pseudo-liberties.
C20_AtariIffOneDistinctLiberty ==
  \A p \in board_points :
    /\ chain_of(Self, p).num_pseudo_liberties =
         Cardinality(RefLibertyPairs(color, IF color[p] \in Stones
                                             THEN RefChain(color, p) ELSE {p}))
    /\ in_atari(Self, p) <=> Cardinality(RecordLiberties(p)) = 1
    /\ pseudo_liberty(Self, p) = 0 => ~in_atari(Self, p)

\* The in-board points of a board of 19 lines, and the texts that name them.
FullBoardPoints ==
  { point_from_2d(row, col) : row \in 0..(Len(_COLS) - 1), col \in 0..(Len(_COLS) - 1) }

FullBoardCoordinates ==
  { << _COLS[i] >> \o DecimalString(n) : i \in 1..Len(_COLS), n \in 1..Len(_COLS) }

\* C21: on the board of 19 lines format_point and parse_point are inverse:
\* parse_point(format_point(p)) = p for every in-board point p, and
\* format_point(parse_point(s)) = s for every text s of a column letter of
\* ABCDEFGHJKLMNOPQRST and a row number 1..19; neither call raises.
C21_FormatParseRoundTrip ==
  /\ (convert.kind = "point" /\ convert.point_in \in FullBoardPoints) =>
        /\ convert.error = "none"
        /\ convert.step = 2 => convert.point = convert.point_in
  /\ (convert.kind = "text" /\ convert.text_in \in FullBoardCoordinates) =>
        /\ convert.error = "none"
        /\ convert.step = 2 => convert.text = convert.text_in

\* The text of a column after the skipped letter I and of a row of two
\* digits has gone through parse_point and format_point.
C21_Witness ==
  /\ convert.kind = "text"
  /\ convert.step = 2
  /\ convert.text_in = << "J", "1", "9" >>
  /\ convert.point = point_from_2d(18, 8)

\* C22: every EMPTY in-board point p is its own record: it is its head and
\* its successor, and chains[p] counts each EMPTY neighbour of p once
\* (their number, and the sum of their indices), so that the shortcut of
\* is_legal_move reads whether p has an EMPTY neighbour.
C22_EmptyPointIsSingleton ==
  \A p \in board_points :
    color[p] = EMPTY =>
      LET pairs == RefLibertyPairs(color, {p})
      IN  /\ chain_head[p] = p
          /\ chain_next[p] = p
          /\ chains[p].num_pseudo_liberties = Cardinality(pairs)
          /\ chains[p].liberty_vertex_sum = SumSecond(pairs)
          /\ chain_of(Self, p).num_pseudo_liberties > 0
               <=> \E n \in NeighbourSet(p) : color[n] = EMPTY

\* A point vacated by the capture of a chain of several stones, next to a
\* point the same capture vacated, and a point never played with an EMPTY
\* neighbour.
C22_Witness ==
  /\ \E p \in board_points :
       /\ last_captures[1] = p
       /\ color[p] = EMPTY
       /\ chains[p].num_stones = 1
       /\ \E n \in NeighbourSet(p) : color[n] = EMPTY /\ chains[n].num_stones = 1
  /\ \E q \in board_points :
       /\ color[q] = EMPTY
       /\ chains[q].num_stones = 0
       /\ chains[q].num_pseudo_liberties > 0

\* C23: after every play of a sequence of legal moves no chain of either
\* colour is without liberties: the chain of every stone on the board has an
\* adjacent EMPTY point, its record counts at least one pseudo-liberty, and
\* the assertion that ends play has not failed.
C23_NoChainWithoutLiberties ==
  /\ error = "none"
  /\ \A p \in StonePoints(color) :
       /\ RefLiberties(color, RefChain(color, p)) # {}
       /\ chain_of(Self, p).num_pseudo_liberties > 0

\* A play that took the last liberties of two opposing chains at once and
\* lives on the points it vacated.
C23_Witness ==
  /\ last_captures[1] # INVALID_POINT
  /\ last_captures[2] # INVALID_POINT
  /\ \E p \in StonePoints(color) :
       /\ last_captures[1] \in NeighbourSet(p)
       /\ last_captures[2] \in NeighbourSet(p)
       /\ RefLiberties(color, RefChain(color, p)) \subseteq
            {q \in board_points : chains[q].num_stones = 1 /\ color[q] = EMPTY}

\* The positions one move of the loop leads to from the position x.
RandomPlaySuccessors(x) ==
  { [s |-> play(x.s, move, x.c).s, c |-> opponent(x.c),
     error |-> play(x.s, move, x.c).error] : move \in legal_moves(x.s, x.c) }

\* Whether the loop can end from one of the positions of frontier, all the
\* positions known so far being in seen.
RECURSIVE RandomPlayCanEnd(_, _)
RandomPlayCanEnd(seen, frontier) ==
  LET running == {x \in frontier : x.error = "none"}
  IN  IF running = {} THEN FALSE
      ELSE IF \E x \in running : legal_moves(x.s, x.c) = {} THEN TRUE
      ELSE LET next == UNION {RandomPlaySuccessors(x) : x \in running} \ seen
           IN  RandomPlayCanEnd(seen \cup next, next)

RandomPlayEnded == error = "none" /\ legal_moves(Self, to_play) = {}

\* C24 as stated: whatever legal moves the loop picks, it reaches a position
\* in which the side to move has no legal move other than PASS.
C24_RandomPlayEnds_AsStated == <>RandomPlayEnded

\* C24: from every position the loop reaches, a position in which the side
\* to move has no legal move other than PASS can still be reached, and no
\* play of the loop raises.
C24_RandomPlayCanAlwaysEnd ==
  /\ error = "none"
  /\ LET here == [s |-> Self, c |-> to_play, error |-> error]
     IN  RandomPlayCanEnd({here}, {here})

\* The loop has ended after captures: the side to move has no legal move
\* on either of two EMPTY points, each of which a capture has vacated.
C24_Witness ==
  /\ RandomPlayEnded
  /\ last_captures[1] # INVALID_POINT
  /\ \E p \in BoardPointsOf(RandomPlayBoardSize), q \in BoardPointsOf(RandomPlayBoardSize) :
       /\ p # q
       /\ color[p] = EMPTY /\ chains[p].num_stones = 1
       /\ color[q] = EMPTY /\ chains[q].num_stones = 1

====
